---- MODULE Spec2Model ----
(***************************************************************************)
(* Model of the stock/price synchronisation scripts seller.py (single-store *)
(* marketplace, total-count pagination) and market.py (multi-campaign       *)
(* marketplace, cursor pagination).                                         *)
(*                                                                          *)
(* Python lists are sequences, dicts are records, text that the code        *)
(* inspects character by character (quantities, prices) is a sequence of    *)
(* one-character strings.  The feed keys "Код", "Количество", "Цена" are    *)
(* written Kod, Kolichestvo, Tsena.                                         *)
(***************************************************************************)
EXTENDS Integers, Sequences, FiniteSets, TLC

\* ------------------------------------------------------------------ bounds
\* longest supplier feed (number of rows of watch_remnants)
MaxFeed == 2
\* largest catalog served by a marketplace
MaxCatalog == 3
\* page size the marketplace serves (stands for "limit": 1000 / 200)
PageLimit == 2
\* chunk sizes passed to divide by the callers (stand for 100 / 2000 and
\* 900 / 1000 / 500)
StockChunk == 2
PriceChunk == 1
\* longest list and largest chunk size handed to divide on its own
MaxItems == 4
MaxChunk == 3

\* ------------------------------------------------------------ value sets
OfferCodes == {"A", "B", "C"}
Campaigns == <<"FBS", "DBS">>
PyNone == "None"

\* quantity texts of the feed: ">10", "1", "7", "0", "-3", "abc"
QtyTexts == { <<">", "1", "0">>, <<"1">>, <<"7">>, <<"0">>, <<"-", "3">>,
              <<"a", "b", "c">> }
\* price texts of the feed: "5'990.00 rub.", "1200 rub.", "", ".5"
PriceTexts == { <<"5", "'", "9", "9", "0", ".", "0", "0", " ", "r", "u", "b", ".">>,
                <<"1", "2", "0", "0", " ", "r", "u", "b", ".">>,
                <<>>,
                <<".", "5">> }

SeqsUpTo(S, k) == UNION { [1..m -> S] : m \in 0..k }
Range(s) == { s[i] : i \in DOMAIN s }
NoDup(s) == \A i, j \in DOMAIN s : i # j => s[i] # s[j]

SupplierRows == [Kod : OfferCodes, Kolichestvo : QtyTexts, Tsena : PriceTexts]
\* create_stocks never reads "Цена" and create_prices never reads
\* "Количество": the rows handed to each vary the column it reads
StockRows == { r \in SupplierRows : Len(r.Tsena) = 9 }
PriceRows == { r \in SupplierRows : r.Kolichestvo = <<"7">> }
\* a marketplace lists every offer id once
Catalogs == { c \in SeqsUpTo(OfferCodes, MaxCatalog) : NoDup(c) }

\* --------------------------------------------------------- python helpers
Digits == <<"0", "1", "2", "3", "4", "5", "6", "7", "8", "9">>
IsDigit(ch) == \E d \in DOMAIN Digits : Digits[d] = ch
DigitVal(ch) == (CHOOSE d \in DOMAIN Digits : Digits[d] = ch) - 1

RECURSIVE DigitsToNat(_, _)
DigitsToNat(s, acc) ==
    IF s = <<>> THEN acc ELSE DigitsToNat(Tail(s), acc * 10 + DigitVal(Head(s)))

\* int(text): optional sign, then at least one digit and nothing else;
\* anything else raises ValueError
PyInt(s) ==
    LET signed == s # <<>> /\ Head(s) \in {"+", "-"}
        body == IF signed THEN Tail(s) ELSE s
    IN  IF body # <<>> /\ \A i \in DOMAIN body : IsDigit(body[i])
        THEN [error |-> "",
              value |-> IF signed /\ Head(s) = "-"
                        THEN 0 - DigitsToNat(body, 0) ELSE DigitsToNat(body, 0)]
        ELSE [error |-> "ValueError", value |-> 0]

\* x in lst
InList(x, lst) == \E i \in DOMAIN lst : lst[i] = x

\* lst.remove(x): drops the first occurrence of x
ListRemoveKeep(lst, x) == lst
ListRemove(lst, x) ==
    LET i == CHOOSE k \in DOMAIN lst : lst[k] = x /\ \A j \in 1..(k - 1) : lst[j] # x
    IN  SubSeq(lst, 1, i - 1) \o SubSeq(lst, i + 1, Len(lst))

\* ------------------------------------------------------- price_conversion
\* price.split(".")[0]
RECURSIVE BeforeDot(_)
BeforeDot(s) ==
    IF s = <<>> \/ Head(s) = "." THEN <<>> ELSE <<Head(s)>> \o BeforeDot(Tail(s))

\* re.sub("[^0-9]", "", text)
RECURSIVE OnlyDigits(_)
OnlyDigits(s) ==
    IF s = <<>> THEN <<>>
    ELSE (IF IsDigit(Head(s)) THEN <<Head(s)>> ELSE <<>>) \o OnlyDigits(Tail(s))

price_conversion(price) == OnlyDigits(BeforeDot(price))

\* ------------------------------------------------------------------ divide
\* the slice lst[i : i + n] (i counted from 0)
SliceShort(lst, i, n) ==
    SubSeq(lst, i + 1, IF i + n - 1 < Len(lst) THEN i + n - 1 ELSE Len(lst))
Slice(lst, i, n) ==
    SubSeq(lst, i + 1, IF i + n < Len(lst) THEN i + n ELSE Len(lst))

\* for i in range(0, len(lst), n): yield lst[i : i + n]
RECURSIVE DivideFrom(_, _, _)
DivideFrom(lst, n, i) ==
    IF i >= Len(lst) THEN <<>>
    ELSE <<Slice(lst, i, n)>> \o DivideFrom(lst, n, i + n)

\* list(divide(lst, n)): range() raises ValueError for a zero step and is
\* empty for a negative one
divide(lst, n) ==
    IF n = 0 THEN [error |-> "ValueError", batches |-> <<>>]
    ELSE IF n < 0 THEN [error |-> "", batches |-> <<>>]
    ELSE [error |-> "", batches |-> DivideFrom(lst, n, 0)]

\* ----------------------------------------------------------- create_stocks
\* the count heuristic of both create_stocks
StockCount(count) ==
    IF count = <<">", "1", "0">> THEN [error |-> "", value |-> 100]
    ELSE IF count = <<"1">> THEN [error |-> "", value |-> 0]
    ELSE PyInt(count)

SellerStock(offer_id, stock) == [offer_id |-> offer_id, stock |-> stock]

UpdatedAt == "utcnow"
MarketStock(sku, warehouse_id, count) ==
    [sku |-> sku, warehouseId |-> warehouse_id,
     items |-> << [count |-> count, type |-> "FIT", updatedAt |-> UpdatedAt] >>]

\* the tail loop "for offer_id in offer_ids: stocks.append(... 0)"
RECURSIVE SellerLeftovers(_)
SellerLeftovers(offer_ids) ==
    IF offer_ids = <<>> THEN <<>>
    ELSE <<SellerStock(Head(offer_ids), 0)>> \o SellerLeftovers(Tail(offer_ids))

RECURSIVE MarketLeftovers(_, _)
MarketLeftovers(offer_ids, warehouse_id) ==
    IF offer_ids = <<>> THEN <<>>
    ELSE <<MarketStock(Head(offer_ids), warehouse_id, 0)>>
         \o MarketLeftovers(Tail(offer_ids), warehouse_id)

\* seller.create_stocks; the result carries the caller's offer_ids list as
\* the call leaves it, since the list is modified in place
RECURSIVE seller_stock_loop(_, _, _)
seller_stock_loop(watch_remnants, offer_ids, stocks) ==
    IF watch_remnants = <<>>
    THEN [error |-> "", stocks |-> stocks \o SellerLeftovers(offer_ids),
          offer_ids |-> offer_ids]
    ELSE LET watch == Head(watch_remnants)
             stock == StockCount(watch.Kolichestvo)
         IN  IF ~InList(watch.Kod, offer_ids)
             THEN seller_stock_loop(Tail(watch_remnants), offer_ids, stocks)
             ELSE IF stock.error # ""
             THEN [error |-> stock.error, stocks |-> <<>>, offer_ids |-> offer_ids]
             ELSE seller_stock_loop(Tail(watch_remnants),
                                    ListRemove(offer_ids, watch.Kod),
                                    Append(stocks, SellerStock(watch.Kod, stock.value)))

seller_create_stocks(watch_remnants, offer_ids) ==
    seller_stock_loop(watch_remnants, offer_ids, <<>>)

RECURSIVE market_stock_loop(_, _, _, _)
market_stock_loop(watch_remnants, offer_ids, warehouse_id, stocks) ==
    IF watch_remnants = <<>>
    THEN [error |-> "", stocks |-> stocks \o MarketLeftovers(offer_ids, warehouse_id),
          offer_ids |-> offer_ids]
    ELSE LET watch == Head(watch_remnants)
             stock == StockCount(watch.Kolichestvo)
         IN  IF ~InList(watch.Kod, offer_ids)
             THEN market_stock_loop(Tail(watch_remnants), offer_ids, warehouse_id, stocks)
             ELSE IF stock.error # ""
             THEN [error |-> stock.error, stocks |-> <<>>, offer_ids |-> offer_ids]
             ELSE market_stock_loop(Tail(watch_remnants),
                                    ListRemove(offer_ids, watch.Kod), warehouse_id,
                                    Append(stocks,
                                           MarketStock(watch.Kod, warehouse_id, stock.value)))

market_create_stocks(watch_remnants, offer_ids, warehouse_id) ==
    market_stock_loop(watch_remnants, offer_ids, warehouse_id, <<>>)

\* ----------------------------------------------------------- create_prices
\* the test "str(watch.get("Код")) in offer_ids" of both create_prices
PriceMatchesAny(watch, offer_ids) == TRUE
PriceMatches(watch, offer_ids) == InList(watch.Kod, offer_ids)

SellerPrice(watch) ==
    [auto_action_enabled |-> "UNKNOWN", currency_code |-> "RUB",
     offer_id |-> watch.Kod, old_price |-> "0",
     price |-> price_conversion(watch.Tsena)]

RECURSIVE seller_price_loop(_, _, _)
seller_price_loop(watch_remnants, offer_ids, prices) ==
    IF watch_remnants = <<>> THEN [error |-> "", prices |-> prices]
    ELSE LET watch == Head(watch_remnants)
         IN  IF PriceMatches(watch, offer_ids)
             THEN seller_price_loop(Tail(watch_remnants), offer_ids,
                                    Append(prices, SellerPrice(watch)))
             ELSE seller_price_loop(Tail(watch_remnants), offer_ids, prices)

seller_create_prices(watch_remnants, offer_ids) ==
    seller_price_loop(watch_remnants, offer_ids, <<>>)

MarketPrice(watch, value) ==
    [id |-> watch.Kod, price |-> [value |-> value, currencyId |-> "RUR"]]

\* market.create_prices: int(price_conversion(...)) raises on an empty text
RECURSIVE market_price_loop(_, _, _)
market_price_loop(watch_remnants, offer_ids, prices) ==
    IF watch_remnants = <<>> THEN [error |-> "", prices |-> prices]
    ELSE LET watch == Head(watch_remnants)
             value == PyInt(price_conversion(watch.Tsena))
         IN  IF ~PriceMatches(watch, offer_ids)
             THEN market_price_loop(Tail(watch_remnants), offer_ids, prices)
             ELSE IF value.error # ""
             THEN [error |-> value.error, prices |-> <<>>]
             ELSE market_price_loop(Tail(watch_remnants), offer_ids,
                                    Append(prices, MarketPrice(watch, value.value)))

market_create_prices(watch_remnants, offer_ids) ==
    market_price_loop(watch_remnants, offer_ids, <<>>)

\* ------------------------------------------------------------------- state
VARIABLES
    module,          \* "seller" (seller.py) or "market" (market.py)
    entry,           \* the function of that file that was called
    pc,              \* the statement the call is at
    campaign,        \* client_id / campaign_id the calls are made for
    catalog,         \* the offer ids the marketplace holds for that campaign
    page,            \* last_id / page of get_offer_ids
    product_list,    \* product_list of get_offer_ids
    total,           \* total of the last response (seller.py)
    requests,        \* page tokens sent by the current get_offer_ids call
    responses,       \* responses received by the current get_offer_ids call
    watch_remnants,  \* the supplier feed
    offer_ids,       \* the caller's offer_ids list
    stocks,          \* result of create_stocks
    prices,          \* result of create_prices
    batches,         \* list(divide(...)) being iterated
    sent,            \* number of batches of that list already passed on
    uploaded,        \* every batch passed to update_stocks / update_price
    unawaited,       \* coroutine objects created and never run
    error,           \* exception raised, "" when none
    failed_at,       \* statement that raised it
    printed,         \* what main's except clauses printed
    lst,             \* arguments of a direct divide call
    n

vars == <<module, entry, pc, campaign, catalog, page, product_list, total, requests,
          responses, watch_remnants, offer_ids, stocks, prices, batches, sent,
          uploaded, unawaited, error, failed_at, printed, lst, n>>

pagingVars == <<page, product_list, total, requests, responses>>

\* rows used when a whole run is modelled: a well-formed row (">10",
\* "1200 rub.") and a malformed one ("abc", "") for every offer code
RunRows == { r \in SupplierRows :
               \/ r.Kolichestvo = <<">", "1", "0">> /\ Len(r.Tsena) = 9
               \/ r.Kolichestvo = <<"a", "b", "c">> /\ r.Tsena = <<>> }
RunFeeds == SeqsUpTo(RunRows, MaxFeed)

Items == {"a", "b"}
ChunkSizes == (0 - 1)..MaxChunk

TransportErrors == {"ReadTimeout", "ConnectionError", "HTTPError"}

FirstCampaign(m) == IF m = "seller" THEN "CLIENT_ID" ELSE Campaigns[1]
WarehouseOf(c) == IF c = Campaigns[1] THEN "WAREHOUSE_FBS_ID" ELSE "WAREHOUSE_DBS_ID"

\* ------------------------------------------------- marketplace (collaborator)
TokenNames == <<"t1", "t2", "t3", "t4", "t5", "t6">>
Token(k) == IF k = 0 THEN "" ELSE TokenNames[k]
Offset(tok) ==
    IF \E k \in DOMAIN TokenNames : TokenNames[k] = tok
    THEN CHOOSE k \in DOMAIN TokenNames : TokenNames[k] = tok
    ELSE 0

PageSizes(cat, tok) ==
    LET left == Len(cat) - Offset(tok)
    IN  IF left <= 0 THEN {0}
        ELSE 1..(IF left < PageLimit THEN left ELSE PageLimit)

\* seller.get_product_list: a page of k items after last_id, the catalog's
\* size and the position reached
seller_get_product_list(cat, last_id, k) ==
    [items |-> [i \in 1..k |-> [offer_id |-> cat[Offset(last_id) + i]]],
     total |-> Len(cat),
     last_id |-> Token(Offset(last_id) + k)]

\* market.get_product_list: a page of k entries after the page token; the
\* token of the next page, empty or missing (absent) on the last page
market_get_product_list(cat, tok, k, absent) ==
    [offerMappingEntries |->
         [i \in 1..k |-> [offer |-> [shopSku |-> cat[Offset(tok) + i]]]],
     paging |-> [nextPageToken |->
                     IF Offset(tok) + k >= Len(cat)
                     THEN (IF absent THEN PyNone ELSE "")
                     ELSE Token(Offset(tok) + k)]]

\* ------------------------------------------------------------ get_offer_ids
\* seller.py: "if total == len(product_list): break"
TotalReachedEarly(t, plist) == t >= Len(plist)
TotalReached(t, plist) == t = Len(plist)

\* market.py: "if not page: break"
NotPageOnlyNone(p) == p = PyNone
NotPage(p) == p = "" \/ p = PyNone

SellerOfferIds(plist) == [i \in DOMAIN plist |-> plist[i].offer_id]
MarketOfferIds(plist) == [i \in DOMAIN plist |-> plist[i].offer.shopSku]

\* where a call goes once get_offer_ids has returned
AfterOfferIds ==
    IF entry = "get_offer_ids" THEN "done"
    ELSE IF entry = "upload_prices" THEN "create_prices"
    ELSE IF entry = "main" /\ module = "seller" THEN "download_stock"
    ELSE "create_stocks"

\* an exception: main's try block prints and ends, elsewhere it propagates
InTry == entry = "main" /\ ~(module = "market" /\ pc = "download_stock")
Message(kind) ==
    IF kind = "ReadTimeout" THEN "timeout"
    ELSE IF kind = "ConnectionError" THEN "connection"
    ELSE "ERROR_2"
Raise(kind) ==
    /\ error' = kind
    /\ failed_at' = pc
    /\ pc' = IF InTry THEN "done" ELSE "raised"
    /\ printed' = IF InTry THEN Message(kind) ELSE printed

\* one turn of seller.get_offer_ids' loop whose request succeeds
SellerFetchPage ==
    /\ module = "seller" /\ pc = "get_offer_ids"
    /\ \E k \in PageSizes(catalog, page) :
         LET some_prod == seller_get_product_list(catalog, page, k)
             plist == product_list \o some_prod.items
         IN  /\ requests' = Append(requests, page)
             /\ responses' = Append(responses, some_prod)
             /\ product_list' = plist
             /\ total' = some_prod.total
             /\ page' = some_prod.last_id
             /\ IF TotalReached(some_prod.total, plist)
                THEN /\ offer_ids' = SellerOfferIds(plist)
                     /\ pc' = AfterOfferIds
                ELSE UNCHANGED <<offer_ids, pc>>
    /\ UNCHANGED <<module, entry, campaign, catalog, watch_remnants, stocks, prices,
                   batches, sent, uploaded, unawaited, error, failed_at, printed,
                   lst, n>>

\* one turn of market.get_offer_ids' loop whose request succeeds
MarketFetchPage ==
    /\ module = "market" /\ pc = "get_offer_ids"
    /\ \E k \in PageSizes(catalog, page), absent \in BOOLEAN :
         LET some_prod == market_get_product_list(catalog, page, k, absent)
             plist == product_list \o some_prod.offerMappingEntries
         IN  /\ requests' = Append(requests, page)
             /\ responses' = Append(responses, some_prod)
             /\ product_list' = plist
             /\ page' = some_prod.paging.nextPageToken
             /\ IF NotPage(some_prod.paging.nextPageToken)
                THEN /\ offer_ids' = MarketOfferIds(plist)
                     /\ pc' = AfterOfferIds
                ELSE UNCHANGED <<offer_ids, pc>>
    /\ UNCHANGED <<module, entry, campaign, catalog, total, watch_remnants, stocks,
                   prices, batches, sent, uploaded, unawaited, error, failed_at,
                   printed, lst, n>>

\* get_product_list raises (raise_for_status, timeout, connection error)
FetchFailSwallowed ==
    /\ pc = "get_offer_ids"
    /\ \E kind \in TransportErrors :
         /\ error' = kind
         /\ failed_at' = pc
         /\ printed' = Message(kind)
    /\ requests' = Append(requests, page)
    /\ offer_ids' = IF module = "seller" THEN SellerOfferIds(product_list)
                    ELSE MarketOfferIds(product_list)
    /\ pc' = AfterOfferIds
    /\ UNCHANGED <<module, entry, campaign, catalog, page, product_list, total,
                   responses, watch_remnants, stocks, prices, batches,
                   sent, uploaded, unawaited, lst, n>>
FetchFail ==
    /\ pc = "get_offer_ids"
    /\ \E kind \in TransportErrors : Raise(kind)
    /\ requests' = Append(requests, page)
    /\ UNCHANGED <<module, entry, campaign, catalog, page, product_list, total,
                   responses, watch_remnants, offer_ids, stocks, prices, batches,
                   sent, uploaded, unawaited, lst, n>>

\* ------------------------------------------------------------ download_stock
\* download_stock returns the supplier's current feed
DownloadStock ==
    /\ pc = "download_stock"
    /\ watch_remnants' \in RunFeeds
    /\ pc' = IF module = "market" THEN "get_offer_ids" ELSE "create_stocks"
    /\ UNCHANGED <<module, entry, campaign, catalog, pagingVars, offer_ids, stocks,
                   prices, batches, sent, uploaded, unawaited, error, failed_at,
                   printed, lst, n>>

\* download_stock raises (response.raise_for_status())
DownloadFail ==
    /\ pc = "download_stock"
    /\ \E kind \in TransportErrors : Raise(kind)
    /\ UNCHANGED <<module, entry, campaign, catalog, pagingVars, watch_remnants,
                   offer_ids, stocks, prices, batches, sent, uploaded, unawaited,
                   lst, n>>

\* ------------------------------------------------------- stocks of one run
\* where a call goes once every stock batch has been passed on
AfterStocks ==
    IF entry = "main" /\ module = "seller" THEN "create_prices"
    ELSE IF entry = "main" THEN "upload_prices"
    ELSE "done"

\* create_stocks(...) and, in the callers, list(divide(stocks, chunk))
CreateStocks ==
    /\ pc = "create_stocks"
    /\ LET r == IF module = "seller"
                THEN seller_create_stocks(watch_remnants, offer_ids)
                ELSE market_create_stocks(watch_remnants, offer_ids,
                                          WarehouseOf(campaign))
           chunks == divide(r.stocks, StockChunk).batches
       IN  /\ offer_ids' = r.offer_ids
           /\ IF r.error # ""
              THEN /\ Raise(r.error)
                   /\ UNCHANGED <<stocks, batches, sent>>
              ELSE /\ stocks' = r.stocks
                   /\ IF entry = "create_stocks"
                      THEN pc' = "done" /\ UNCHANGED <<batches, sent>>
                      ELSE /\ batches' = chunks
                           /\ sent' = 0
                           /\ pc' = IF chunks = <<>> THEN AfterStocks
                                    ELSE "update_stocks"
                   /\ UNCHANGED <<error, failed_at, printed>>
    /\ UNCHANGED <<module, entry, campaign, catalog, pagingVars, watch_remnants,
                   prices, uploaded, unawaited, lst, n>>

Upload(kind, ok) ==
    [kind |-> kind, campaign |-> campaign, batch |-> batches[sent + 1], ok |-> ok]

\* a failed update_stocks / update_price call
RaiseUpload(kind) ==
    /\ Raise(kind)
    /\ UNCHANGED sent

\* update_stocks(some_stock, ...) returns
UpdateStocks ==
    /\ pc = "update_stocks"
    /\ uploaded' = Append(uploaded, Upload("stocks", TRUE))
    /\ sent' = sent + 1
    /\ pc' = IF sent + 1 = Len(batches) THEN AfterStocks ELSE pc
    /\ UNCHANGED <<module, entry, campaign, catalog, pagingVars, watch_remnants,
                   offer_ids, stocks, prices, batches, unawaited, error, failed_at,
                   printed, lst, n>>

\* update_stocks(some_stock, ...) raises
UpdateStocksFail ==
    /\ pc = "update_stocks"
    /\ uploaded' = Append(uploaded, Upload("stocks", FALSE))
    /\ \E kind \in TransportErrors : RaiseUpload(kind)
    /\ UNCHANGED <<module, entry, campaign, catalog, pagingVars, watch_remnants,
                   offer_ids, stocks, prices, batches, unawaited, lst, n>>

\* ------------------------------------------------------- prices of one run
\* create_prices(...) and, in the callers, list(divide(prices, chunk))
CreatePrices ==
    /\ pc = "create_prices"
    /\ LET r == IF module = "seller"
                THEN seller_create_prices(watch_remnants, offer_ids)
                ELSE market_create_prices(watch_remnants, offer_ids)
           chunks == divide(r.prices, PriceChunk).batches
       IN  IF r.error # ""
           THEN /\ Raise(r.error)
                /\ UNCHANGED <<prices, batches, sent>>
           ELSE /\ prices' = r.prices
                /\ IF entry = "create_prices"
                   THEN pc' = "done" /\ UNCHANGED <<batches, sent>>
                   ELSE /\ batches' = chunks
                        /\ sent' = 0
                        /\ pc' = IF chunks = <<>> THEN "done" ELSE "update_price"
                /\ UNCHANGED <<error, failed_at, printed>>
    /\ UNCHANGED <<module, entry, campaign, catalog, pagingVars, watch_remnants,
                   offer_ids, stocks, uploaded, unawaited, lst, n>>

\* update_price(some_price, ...) returns
UpdatePrice ==
    /\ pc = "update_price"
    /\ uploaded' = Append(uploaded, Upload("prices", TRUE))
    /\ sent' = sent + 1
    /\ pc' = IF sent + 1 = Len(batches) THEN "done" ELSE pc
    /\ UNCHANGED <<module, entry, campaign, catalog, pagingVars, watch_remnants,
                   offer_ids, stocks, prices, batches, unawaited, error, failed_at,
                   printed, lst, n>>

\* update_price(some_price, ...) raises
UpdatePriceFail ==
    /\ pc = "update_price"
    /\ uploaded' = Append(uploaded, Upload("prices", FALSE))
    /\ \E kind \in TransportErrors : RaiseUpload(kind)
    /\ UNCHANGED <<module, entry, campaign, catalog, pagingVars, watch_remnants,
                   offer_ids, stocks, prices, batches, unawaited, lst, n>>

\* market.main: "upload_prices(watch_remnants, campaign_id, market_token)"
\* without await builds a coroutine object whose body never runs; main goes
\* on to the DBS campaign, whose catalog is whatever the marketplace holds
UploadPricesNotAwaited ==
    /\ pc = "upload_prices"
    /\ unawaited' = unawaited + 1
    /\ IF campaign = Campaigns[1]
       THEN /\ campaign' = Campaigns[2]
            /\ catalog' \in Catalogs
            /\ pc' = "get_offer_ids"
            /\ page' = ""
            /\ product_list' = <<>>
            /\ requests' = <<>>
            /\ responses' = <<>>
       ELSE /\ pc' = "done"
            /\ UNCHANGED <<campaign, catalog, page, product_list, requests, responses>>
    /\ UNCHANGED <<module, entry, total, watch_remnants, offer_ids, stocks, prices,
                   batches, sent, uploaded, error, failed_at, printed, lst, n>>

\* ------------------------------------------------------ divide on its own
Divide ==
    /\ pc = "divide"
    /\ LET r == divide(lst, n)
       IN  IF r.error # ""
           THEN Raise(r.error) /\ UNCHANGED batches
           ELSE /\ batches' = r.batches
                /\ pc' = "done"
                /\ UNCHANGED <<error, failed_at, printed>>
    /\ UNCHANGED <<module, entry, campaign, catalog, pagingVars, watch_remnants,
                   offer_ids, stocks, prices, sent, uploaded, unawaited, lst, n>>

\* ---------------------------------------------------------- specifications
Blank ==
    /\ page = "" /\ product_list = <<>> /\ total = 0
    /\ requests = <<>> /\ responses = <<>>
    /\ stocks = <<>> /\ prices = <<>> /\ batches = <<>> /\ sent = 0
    /\ uploaded = <<>> /\ unawaited = 0
    /\ error = "" /\ failed_at = "" /\ printed = ""

\* a run of main, or of one of the upload coroutines driven to completion
Init ==
    /\ module \in {"seller", "market"}
    /\ entry \in {"main", "upload_stocks", "upload_prices"}
    /\ campaign = FirstCampaign(module)
    /\ catalog \in Catalogs
    /\ watch_remnants \in (IF entry = "main" THEN {<<>>} ELSE RunFeeds)
    /\ offer_ids = <<>>
    /\ pc = IF entry = "main" /\ module = "market"
            THEN "download_stock" ELSE "get_offer_ids"
    /\ lst = <<>> /\ n = 0
    /\ Blank

Next ==
    \/ SellerFetchPage \/ MarketFetchPage \/ FetchFail
    \/ DownloadStock \/ DownloadFail
    \/ CreateStocks \/ UpdateStocks \/ UpdateStocksFail
    \/ CreatePrices \/ UpdatePrice \/ UpdatePriceFail
    \/ UploadPricesNotAwaited

Spec == Init /\ [][Next]_vars

\* get_offer_ids called on its own; the call returns or raises
PagingInit ==
    /\ module \in {"seller", "market"}
    /\ entry = "get_offer_ids"
    /\ campaign = FirstCampaign(module)
    /\ catalog \in Catalogs
    /\ watch_remnants = <<>> /\ offer_ids = <<>>
    /\ pc = "get_offer_ids"
    /\ lst = <<>> /\ n = 0
    /\ Blank

PagingNext == SellerFetchPage \/ MarketFetchPage \/ FetchFail

PagingSpec == PagingInit /\ [][PagingNext]_vars /\ WF_vars(PagingNext)

\* create_stocks / create_prices called on their own
ReconcileInit ==
    /\ module \in {"seller", "market"}
    /\ entry \in {"create_stocks", "create_prices"}
    /\ campaign = FirstCampaign(module)
    /\ catalog \in Catalogs
    /\ offer_ids = catalog
    /\ watch_remnants \in SeqsUpTo(IF entry = "create_stocks" THEN StockRows
                                  ELSE PriceRows, MaxFeed)
    /\ pc = entry
    /\ lst = <<>> /\ n = 0
    /\ Blank

ReconcileNext == CreateStocks \/ CreatePrices

ReconcileSpec == ReconcileInit /\ [][ReconcileNext]_vars

\* divide called on its own
DivideInit ==
    /\ module = "seller"
    /\ entry = "divide"
    /\ campaign = FirstCampaign(module)
    /\ catalog = <<>> /\ watch_remnants = <<>> /\ offer_ids = <<>>
    /\ lst \in SeqsUpTo(Items, MaxItems)
    /\ n \in ChunkSizes
    /\ pc = "divide"
    /\ Blank

DivideNext == Divide

DivideSpec == DivideInit /\ [][DivideNext]_vars

\* ------------------------------------------------------------- properties
Returned == pc = "done" /\ error = ""
Ended == pc \in {"done", "raised"}

FeedCodes == { watch_remnants[i].Kod : i \in DOMAIN watch_remnants }
RowsOf(code) == { i \in DOMAIN watch_remnants : watch_remnants[i].Kod = code }
FirstRowOf(code) == watch_remnants[CHOOSE i \in RowsOf(code) : \A j \in RowsOf(code) : i <= j]

StockId(u) == IF module = "seller" THEN u.offer_id ELSE u.sku
StockQty(u) == IF module = "seller" THEN u.stock ELSE u.items[1].count
PriceId(u) == IF module = "seller" THEN u.offer_id ELSE u.id
PriceOf(u) == IF module = "seller" THEN u.price ELSE u.price.value
StocksOf(code) == { i \in DOMAIN stocks : StockId(stocks[i]) = code }
PricesOf(code) == { i \in DOMAIN prices : PriceId(prices[i]) = code }

RECURSIVE Flatten(_)
Flatten(ss) == IF ss = <<>> THEN <<>> ELSE Head(ss) \o Flatten(Tail(ss))
Ceil(a, b) == (a + b - 1) \div b

\* C1: the stock updates create_stocks returns (either marketplace) carry
\* exactly the catalog's offer ids, each id once; an id the feed does not
\* mention is there with count 0.
C1_StockIdsAreCatalog ==
    (entry = "create_stocks" /\ Returned) =>
        /\ { StockId(stocks[i]) : i \in DOMAIN stocks } = Range(catalog)
        /\ \A code \in Range(catalog) : Cardinality(StocksOf(code)) = 1
        /\ Len(stocks) = Len(catalog)
        /\ \A i \in DOMAIN stocks :
             StockId(stocks[i]) \notin FeedCodes => StockQty(stocks[i]) = 0

C1_Witness ==
    /\ entry = "create_stocks" /\ Returned
    /\ Len(watch_remnants) = 2
    /\ watch_remnants[1].Kod = watch_remnants[2].Kod
    /\ watch_remnants[1].Kod \in Range(catalog)
    /\ \E i \in DOMAIN stocks : StockQty(stocks[i]) = 100
    /\ \E i \in DOMAIN stocks : StockId(stocks[i]) \notin FeedCodes

\* C2: a code that occurs in two or more feed rows and in the catalog gets
\* exactly one stock update and exactly one price update, both taken from
\* the first of those rows.
C2_OneUpdatePerRepeatedCode ==
    Returned =>
        \A code \in Range(catalog) :
            Cardinality(RowsOf(code)) >= 2 =>
                /\ entry = "create_stocks" =>
                     /\ Cardinality(StocksOf(code)) = 1
                     /\ \A i \in StocksOf(code) :
                          StockQty(stocks[i]) = StockCount(FirstRowOf(code).Kolichestvo).value
                /\ entry = "create_prices" =>
                     /\ Cardinality(PricesOf(code)) = 1
                     /\ \A i \in PricesOf(code) :
                          PriceOf(prices[i]) =
                              IF module = "seller"
                              THEN price_conversion(FirstRowOf(code).Tsena)
                              ELSE PyInt(price_conversion(FirstRowOf(code).Tsena)).value

\* C3: in a run of seller.main the price updates cover every catalog id
\* that the feed mentions; create_stocks leaves the catalog ids that
\* create_prices reads untouched.
C3_PricesCoverCatalog ==
    (module = "seller" /\ entry = "main"
       /\ (pc = "update_price" \/ (Returned /\ failed_at = ""))) =>
        { PriceId(prices[i]) : i \in DOMAIN prices } = Range(catalog) \cap FeedCodes

\* C4: every price update create_prices returns is for an offer id that is
\* in the catalog and is the code of some feed row.
C4_PriceIdsInCatalogAndFeed ==
    (entry = "create_prices" /\ Returned) =>
        \A i \in DOMAIN prices :
            PriceId(prices[i]) \in Range(catalog) \cap FeedCodes

C4_Witness ==
    /\ entry = "create_prices" /\ Returned
    /\ prices # <<>>
    /\ \E code \in FeedCodes : code \notin Range(catalog)
    /\ \E code \in Range(catalog) : code \notin FeedCodes

\* C5: when an upload call of a run fails, every batch of the list being
\* uploaded has still been passed to the upload collaborator by the time
\* the run ends.
C5_AllBatchesAttempted ==
    (Ended /\ failed_at \in {"update_stocks", "update_price"}) =>
        \A b \in DOMAIN batches :
            \E u \in DOMAIN uploaded :
                /\ uploaded[u].campaign = campaign
                /\ uploaded[u].batch = batches[b]

\* C6: a run of market.main that meets no error has passed every batch of
\* the campaign's price updates to update_price and has left no price
\* dispatch unfinished.
C6_PriceBatchesUploaded ==
    (module = "market" /\ entry = "main" /\ Returned) =>
        /\ LET due == divide(market_create_prices(watch_remnants, catalog).prices,
                             PriceChunk).batches
           IN  \A b \in DOMAIN due :
                   \E u \in DOMAIN uploaded :
                       /\ uploaded[u].kind = "prices"
                       /\ uploaded[u].campaign = campaign
                       /\ uploaded[u].batch = due[b]

\* C7: once a catalog page fetch has failed the run has ended, and no
\* stock or price batch of that campaign has been or will be uploaded.
C7_NoUploadAfterFetchFailure ==
    failed_at = "get_offer_ids" =>
        /\ Ended
        /\ \A u \in DOMAIN uploaded : uploaded[u].campaign # campaign

C7_Witness ==
    /\ failed_at = "get_offer_ids"
    /\ entry = "main" /\ module = "market"
    /\ campaign = Campaigns[2]
    /\ responses # <<>>
    /\ uploaded # <<>>

\* C8: seller.get_offer_ids sends its requests one after another, each
\* with the last_id of the response before it, accumulates the items, goes
\* on exactly while the accumulated count differs from the reported total,
\* returns the offer ids of the accumulated items, and always ends.
C8_Accumulated ==
    Flatten([i \in DOMAIN responses |-> responses[i].items])
C8_TotalCountWalk ==
    module = "seller" =>
        /\ requests # <<>> => requests[1] = ""
        /\ \A i \in 2..Len(requests) : requests[i] = responses[i - 1].last_id
        /\ Len(responses) <= Len(requests) /\ Len(requests) <= Len(responses) + 1
        /\ product_list = C8_Accumulated
        /\ \A i \in 1..(Len(responses) - 1) :
             Len(Flatten([j \in 1..i |-> responses[j].items])) # responses[i].total
        /\ (pc = "get_offer_ids" /\ responses # <<>>) => Len(product_list) # total
        /\ Returned =>
             /\ Len(product_list) = total
             /\ offer_ids = [i \in DOMAIN product_list |-> product_list[i].offer_id]
             /\ offer_ids = catalog
C8_TotalCountPolicy ==
    /\ []C8_TotalCountWalk
    /\ (module = "seller") ~> (pc # "get_offer_ids")

C8_Witness ==
    /\ module = "seller" /\ entry = "get_offer_ids" /\ Returned
    /\ Len(responses) = 3

\* C9: market.get_offer_ids sends the empty token first, then the
\* nextPageToken of the response before, goes on exactly while that token
\* is non-empty, never asks for a page twice and returns the ids of the
\* fetched pages in page order.
C9_CursorPolicy ==
    module = "market" =>
        /\ requests # <<>> => requests[1] = ""
        /\ \A i \in 2..Len(requests) :
             /\ requests[i] = responses[i - 1].paging.nextPageToken
             /\ requests[i] \notin {"", PyNone}
        /\ Len(responses) <= Len(requests) /\ Len(requests) <= Len(responses) + 1
        /\ NoDup(requests)
        /\ (pc = "get_offer_ids" /\ responses # <<>>) =>
             responses[Len(responses)].paging.nextPageToken \notin {"", PyNone}
        /\ Returned =>
             /\ Len(requests) = Len(responses)
             /\ responses[Len(responses)].paging.nextPageToken \in {"", PyNone}
             /\ offer_ids =
                  Flatten([i \in DOMAIN responses |->
                             [j \in DOMAIN responses[i].offerMappingEntries |->
                                responses[i].offerMappingEntries[j].offer.shopSku]])
             /\ offer_ids = catalog

C9_Witness ==
    /\ module = "market" /\ entry = "get_offer_ids" /\ Returned
    /\ Len(responses) = 2
    /\ page = PyNone
    /\ Len(offer_ids) = 3

\* C10: for a chunk size n > 0, divide(lst, n) yields ceil(len(lst)/n)
\* batches whose concatenation is lst.
C10_DivideRoundTrip ==
    (entry = "divide" /\ n > 0) =>
        /\ pc # "raised"
        /\ pc = "done" =>
             /\ Len(batches) = Ceil(Len(lst), n)
             /\ Flatten(batches) = lst

C10_Witness ==
    /\ entry = "divide" /\ pc = "done"
    /\ n = 3 /\ Len(lst) = 4
    /\ Len(batches) = 2 /\ Len(batches[2]) = 1

\* C11: divide(lst, n) with n <= 0 fails with an error, for n = 0 and for
\* n < 0 alike, whatever lst is; it yields neither batches nor an empty
\* result.
C11_NonPositiveChunkIsError ==
    (entry = "divide" /\ n <= 0 /\ pc # "divide") =>
        /\ pc = "raised"
        /\ error # ""

\* C12: a returned stock update of a matched row has the count the
\* heuristic gives for the row's quantity text (">10" 100, "1" 0, an
\* integer text its value), a matched row with any other text makes
\* create_stocks fail, and every returned count is >= 0.
C12_Expected(text) ==
    CASE text = <<">", "1", "0">> -> 100
      [] text = <<"1">> -> 0
      [] text = <<"7">> -> 7
      [] text = <<"0">> -> 0
      [] text = <<"-", "3">> -> 0 - 3
      [] OTHER -> 0
C12_QuantityHeuristic ==
    (entry = "create_stocks" /\ Ended) =>
        /\ (\E code \in Range(catalog) \cap FeedCodes :
               FirstRowOf(code).Kolichestvo = <<"a", "b", "c">>) => pc = "raised"
        /\ Returned =>
             /\ \A i \in DOMAIN stocks :
                  StockId(stocks[i]) \in FeedCodes =>
                      StockQty(stocks[i]) =
                          C12_Expected(FirstRowOf(StockId(stocks[i])).Kolichestvo)
             /\ \A i \in DOMAIN stocks : StockQty(stocks[i]) >= 0

\* C13: a returned price update carries the integer read from the digits
\* before the first "." of the row's price text, and a matched row whose
\* text leaves no digit makes create_prices fail, in seller.py and in
\* market.py.
C13_Expected(text) ==
    CASE Len(text) = 13 -> 5990
      [] Len(text) = 9 -> 1200
      [] OTHER -> 0 - 1
C13_PriceParsing ==
    (entry = "create_prices" /\ Ended) =>
        /\ (\E i \in DOMAIN watch_remnants :
               /\ watch_remnants[i].Kod \in Range(catalog)
               /\ C13_Expected(watch_remnants[i].Tsena) < 0) => pc = "raised"
        /\ Returned =>
             \A i \in DOMAIN prices :
                 \E j \in RowsOf(PriceId(prices[i])) :
                     C13_Expected(watch_remnants[j].Tsena) =
                         IF module = "seller" THEN DigitsToNat(PriceOf(prices[i]), 0)
                         ELSE PriceOf(prices[i])

====
